---- MODULE Spec2Model ----
(***************************************************************************)
(* A model of scripts/validate-aap-config.py: the AAPConfigValidator class *)
(* (one object per environment, holding three finding lists and the        *)
(* Defined/Referenced name sets), its nine entity validators, the          *)
(* cross-reference reconciliation, print_results, and main's loop over the *)
(* requested environments.                                                 *)
(*                                                                         *)
(* Decoded YAML is modelled as tagged Python values: [t |-> type, v |-> x] *)
(* where x is the text of a scalar, the sequence of a list or the function *)
(* (keys to values) of a mapping.  An uncaught Python exception is carried *)
(* as the "exc" component of a frame [self, exc].                          *)
(***************************************************************************)
EXTENDS Naturals, Sequences, FiniteSets, TLC

\* ------------------------------------------------------------ Python values

PyStr(s) == [t |-> "str", v |-> s]
PyNone == [t |-> "none", v |-> "None"]
PyInt(digits) == [t |-> "int", v |-> digits]
PyBool(b) == [t |-> "bool", v |-> IF b THEN "True" ELSE "False"]
PyList(q) == [t |-> "list", v |-> q]
PyDict(f) == [t |-> "dict", v |-> f]
EmptyDict == PyDict(<<>>)

\* bool(x)
Truthy(x) ==
    CASE x.t = "none" -> FALSE
      [] x.t = "bool" -> x.v = "True"
      [] x.t = "int"  -> x.v # "0"
      [] x.t = "str"  -> x.v # ""
      [] x.t = "list" -> Len(x.v) > 0
      [] x.t = "dict" -> DOMAIN x.v # {}

\* hash(x) succeeds: lists and dicts are unhashable and cannot enter a set
Hashable(x) == x.t \notin {"list", "dict"}

\* some enumeration of a finite set (used only where the order cannot matter)
SeqOf(S) == CHOOSE q \in [1..Cardinality(S) -> S] : {q[i] : i \in DOMAIN q} = S

RECURSIVE JoinRepr(_, _)
\* str(x), as used by f-string formatting and by str(); repr() of the
\* elements of a list
Str(x) ==
    CASE x.t \in {"none", "bool", "int", "str"} -> x.v
      [] x.t = "list" -> "[" \o JoinRepr(x.v, 1) \o "]"
      [] x.t = "dict" -> IF DOMAIN x.v = {} THEN "{}" ELSE "{...}"
Repr(x) == IF x.t = "str" THEN "'" \o x.v \o "'" ELSE Str(x)
JoinRepr(q, i) ==
    IF i > Len(q) THEN ""
    ELSE Repr(q[i]) \o (IF i < Len(q) THEN ", " ELSE "") \o JoinRepr(q, i + 1)

\* s.startswith(p)
StartsWith(s, p) == Len(s) >= Len(p) /\ SubSeq(s, 1, Len(p)) = p
\* sub in s, for two strings
Contains(s, sub) ==
    \E i \in 1..(Len(s) + 1) :
        i + Len(sub) - 1 <= Len(s) /\ SubSeq(s, i, i + Len(sub) - 1) = sub

\* key in d, for a dict d
Has(d, key) == key \in DOMAIN d.v
\* d.get(key, default), for a dict d
Get(d, key, default) == IF Has(d, key) THEN d.v[key] ELSE default

\* The "in" operator with a string on the left: defined (no TypeError) for
\* str, list and dict containers
InSupported(c) == c.t \in {"str", "list", "dict"}
In(s, c) ==
    CASE c.t = "str"  -> Contains(c.v, s)
      [] c.t = "list" -> \E i \in DOMAIN c.v : c.v[i] = PyStr(s)
      [] c.t = "dict" -> Has(c, s)
      [] OTHER -> FALSE

\* iter(x): lists yield their elements, strings their characters, dicts
\* their keys; anything else raises TypeError
Iterable(x) == x.t \in {"str", "list", "dict"}
Items(x) ==
    CASE x.t = "list" -> x.v
      [] x.t = "str"  -> [i \in 1..Len(x.v) |-> PyStr(SubSeq(x.v, i, i))]
      [] x.t = "dict" -> LET ks == SeqOf(DOMAIN x.v) IN [i \in DOMAIN ks |-> PyStr(ks[i])]
      [] OTHER -> <<>>
\* len(x), for the values on which it is defined
PyLen(x) == IF x.t = "dict" THEN Cardinality(DOMAIN x.v) ELSE Len(x.v)

\* --------------------------------------------------- the validator object

\* AAPConfigValidator.__init__
AAPConfigValidator(base_path, environment) ==
    [ base_path |-> base_path,
      environment |-> environment,
      errors |-> <<>>,
      warnings |-> <<>>,
      info |-> <<>>,
      defined_credentials |-> {},
      defined_projects |-> {},
      defined_inventories |-> {},
      defined_ees |-> {},
      defined_organizations |-> {},
      defined_teams |-> {},
      referenced_credentials |-> {},
      referenced_projects |-> {},
      referenced_inventories |-> {},
      referenced_ees |-> {} ]

\* self.errors.append(m), self.warnings.append(m), self.info.append(m)
AddError(self, m) == [self EXCEPT !.errors = Append(@, m)]
AddWarning(self, m) == [self EXCEPT !.warnings = Append(@, m)]
AddInfo(self, m) == [self EXCEPT !.info = Append(@, m)]

\* A frame: the object after a (partial) call and the exception that ended
\* it, "None" when the call returned normally
Ok(self) == [self |-> self, exc |-> "None"]
Raise(self, e) == [self |-> self, exc |-> e]

\* "if c: self.errors.append(m)" and its siblings
ErrorIf(self, c, m) == IF c THEN AddError(self, m) ELSE self
WarnIf(self, c, m) == IF c THEN AddWarning(self, m) ELSE self
InfoIf(self, c, m) == IF c THEN AddInfo(self, m) ELSE self
\* self.<field>.add(x)
AddTo(self, field, x) == [self EXCEPT ![field] = @ \cup {x}]

\* The same statements continuing a frame: skipped once an exception is up
ThenErrorIf(fr, c, m) == IF fr.exc # "None" THEN fr ELSE Ok(ErrorIf(fr.self, c, m))
ThenWarnIf(fr, c, m) == IF fr.exc # "None" THEN fr ELSE Ok(WarnIf(fr.self, c, m))
ThenInfo(fr, m) == IF fr.exc # "None" THEN fr ELSE Ok(AddInfo(fr.self, m))
\* "if present: self.<field>.add(x)": set.add raises TypeError on an
\* unhashable x
ThenAddIf(fr, present, field, x) ==
    IF fr.exc # "None" THEN fr
    ELSE IF ~present THEN fr
    ELSE IF ~Hashable(x) THEN Raise(fr.self, "TypeError")
    ELSE Ok(AddTo(fr.self, field, x))
\* "if present: self.<field>.add(x) / else: self.errors.append(m)"
ThenAddOrError(fr, present, field, x, m) ==
    IF fr.exc # "None" THEN fr
    ELSE IF ~present THEN Ok(AddError(fr.self, m))
    ELSE IF ~Hashable(x) THEN Raise(fr.self, "TypeError")
    ELSE Ok(AddTo(fr.self, field, x))

\* ------------------------------------------------- per-record loop bodies

\* "name = rec.get('name', 'unnamed')": rec.get raises AttributeError when
\* rec is no mapping
NameOf(rec) == Get(rec, "name", PyStr("unnamed"))
\* "name = ...; self.<field>.add(name)" as a frame
define_name(self, rec, field) ==
    IF rec.t # "dict" THEN Raise(self, "AttributeError")
    ELSE ThenAddIf(Ok(self), TRUE, field, NameOf(rec))

\* validate_organizations, the body of "for org in orgs"
organization_record(self, org) ==
    LET f1 == define_name(self, org, "defined_organizations")
        f2 == ThenErrorIf(f1, ~Has(org, "name"), "Organization missing 'name' field")
        f3 == ThenWarnIf(f2, ~Has(org, "description"),
                         "Organization '" \o Str(NameOf(org)) \o "' missing description")
    IN  f3

\* validate_teams, the body of "for team in teams"
team_record(self, team) ==
    LET f1 == define_name(self, team, "defined_teams")
        f2 == ThenErrorIf(f1, ~Has(team, "name"), "Team missing 'name' field")
        f3 == ThenErrorIf(f2, ~Has(team, "organization"),
                          "Team '" \o Str(NameOf(team)) \o "' missing organization reference")
        f4 == ThenWarnIf(f3, ~Has(team, "description"),
                         "Team '" \o Str(NameOf(team)) \o "' missing description")
    IN  f4

sensitive_fields == <<"password", "secret", "token", "private_key">>

\* A plaintext test whose template marker lacks the trailing space
IsPlaintextLoose(value) == ~StartsWith(value, "{{") /\ ~StartsWith(value, "!vault")

\* The test of line 160 on str(inputs[field])
IsPlaintext(value) == ~StartsWith(value, "{{ ") /\ ~StartsWith(value, "!vault")

unencrypted_message(name, field) ==
    "Credential '" \o Str(name) \o "' has unencrypted '" \o field
        \o "' - use ansible-vault or lookup"

\* validate_credentials, "for field in sensitive_fields" from its i-th
\* field: "field in inputs" raises TypeError on None and numbers, and
\* inputs[field] raises TypeError on a str or a list
RECURSIVE sensitive_loop(_, _, _, _)
sensitive_loop(fr, name, inputs, i) ==
    IF fr.exc # "None" \/ i > Len(sensitive_fields) THEN fr
    ELSE IF ~InSupported(inputs) THEN Raise(fr.self, "TypeError")
    ELSE IF ~In(sensitive_fields[i], inputs) THEN sensitive_loop(fr, name, inputs, i + 1)
    ELSE IF inputs.t # "dict" THEN Raise(fr.self, "TypeError")
    ELSE sensitive_loop(
             ThenErrorIf(fr, IsPlaintext(Str(inputs.v[sensitive_fields[i]])),
                         unencrypted_message(name, sensitive_fields[i])),
             name, inputs, i + 1)

\* validate_credentials, the body of "for cred in credentials"
credential_record(self, cred) ==
    LET f1 == define_name(self, cred, "defined_credentials")
        f2 == ThenErrorIf(f1, ~Has(cred, "name"), "Credential missing 'name' field")
        f3 == ThenErrorIf(f2, ~Has(cred, "credential_type"),
                          "Credential '" \o Str(NameOf(cred)) \o "' missing credential_type")
        f4 == ThenErrorIf(f3, ~Has(cred, "organization"),
                          "Credential '" \o Str(NameOf(cred)) \o "' missing organization")
    IN  sensitive_loop(f4, NameOf(cred), Get(cred, "inputs", EmptyDict), 1)

\* validate_execution_environments, lines 180-196: "'@sha256:' not in
\* image" raises TypeError when image is None or a number
image_checks(fr, ee, environment) ==
    IF fr.exc # "None" THEN fr
    ELSE IF ~Has(ee, "image")
    THEN Ok(AddError(fr.self, "Execution Environment '" \o Str(NameOf(ee)) \o "' missing image"))
    ELSE IF ~InSupported(ee.v["image"]) THEN Raise(fr.self, "TypeError")
    ELSE Ok(ErrorIf(
                WarnIf(fr.self,
                       ~In("@sha256:", ee.v["image"]) /\ environment = "prod",
                       "Execution Environment '" \o Str(NameOf(ee))
                           \o "' should use digest-based image reference in production"),
                In(":latest", ee.v["image"]),
                "Execution Environment '" \o Str(NameOf(ee))
                    \o "' uses 'latest' tag - use specific version"))

\* validate_execution_environments, the body of "for ee in ees"
execution_environment_record(self, ee) ==
    LET f1 == define_name(self, ee, "defined_ees")
        f2 == ThenErrorIf(f1, ~Has(ee, "name"), "Execution Environment missing 'name' field")
    IN  image_checks(f2, ee, self.environment)

\* validate_projects, the body of "for project in projects"
project_record(self, project) ==
    LET f1 == define_name(self, project, "defined_projects")
        f2 == ThenErrorIf(f1, ~Has(project, "name"), "Project missing 'name' field")
        f3 == ThenErrorIf(f2, ~Has(project, "scm_type"),
                          "Project '" \o Str(NameOf(project)) \o "' missing scm_type")
        f4 == ThenWarnIf(f3, Has(project, "scm_type") /\ project.v["scm_type"] # PyStr("git"),
                         "Project '" \o Str(NameOf(project))
                             \o "' not using Git SCM (Constitutional Article I: GitOps First)")
        f5 == ThenErrorIf(f4, ~Has(project, "scm_url"),
                          "Project '" \o Str(NameOf(project)) \o "' missing scm_url")
        f6 == ThenWarnIf(f5, ~Has(project, "scm_branch"),
                         "Project '" \o Str(NameOf(project))
                             \o "' not specifying branch - will use repository default")
        f7 == ThenAddIf(f6, Has(project, "credential"), "referenced_credentials",
                        project.v["credential"])
        f8 == ThenAddIf(f7, Has(project, "default_environment"), "referenced_ees",
                        project.v["default_environment"])
    IN  f8

\* validate_inventories, the body of "for inventory in inventories"
inventory_record(self, inventory) ==
    LET f1 == define_name(self, inventory, "defined_inventories")
        f2 == ThenErrorIf(f1, ~Has(inventory, "name"), "Inventory missing 'name' field")
        f3 == ThenErrorIf(f2, ~Has(inventory, "organization"),
                          "Inventory '" \o Str(NameOf(inventory)) \o "' missing organization")
    IN  f3

\* validate_job_templates, "for cred in template['credentials']" from the
\* i-th item: a str is added, a dict with a name has its name added,
\* anything else is passed over
RECURSIVE template_credentials_loop(_, _, _)
template_credentials_loop(fr, items, i) ==
    IF fr.exc # "None" \/ i > Len(items) THEN fr
    ELSE IF items[i].t = "str"
    THEN template_credentials_loop(
             ThenAddIf(fr, TRUE, "referenced_credentials", items[i]), items, i + 1)
    ELSE IF items[i].t = "dict" /\ Has(items[i], "name")
    THEN template_credentials_loop(
             ThenAddIf(fr, TRUE, "referenced_credentials", items[i].v["name"]), items, i + 1)
    ELSE template_credentials_loop(fr, items, i + 1)

\* validate_job_templates, lines 285-290: iterating None or a number raises
\* TypeError
template_credentials(fr, template) ==
    IF fr.exc # "None" \/ ~Has(template, "credentials") THEN fr
    ELSE IF ~Iterable(template.v["credentials"]) THEN Raise(fr.self, "TypeError")
    ELSE template_credentials_loop(fr, Items(template.v["credentials"]), 1)

\* A job template body that stops at the first missing required field
job_template_record_elif(self, template) ==
    IF template.t # "dict" THEN Raise(self, "AttributeError")
    ELSE IF ~Has(template, "name")
    THEN Ok(AddError(self, "Job Template missing 'name' field"))
    ELSE IF ~Has(template, "project")
    THEN Ok(AddError(self, "Job Template '" \o Str(NameOf(template)) \o "' missing project"))
    ELSE IF ~Has(template, "inventory")
    THEN Ok(AddError(self, "Job Template '" \o Str(NameOf(template)) \o "' missing inventory"))
    ELSE IF ~Has(template, "playbook")
    THEN Ok(AddError(self, "Job Template '" \o Str(NameOf(template)) \o "' missing playbook"))
    ELSE Ok(self)

\* validate_job_templates, the body of "for template in templates"
job_template_record(self, template) ==
    LET f0 == IF template.t # "dict" THEN Raise(self, "AttributeError") ELSE Ok(self)
        f1 == ThenErrorIf(f0, ~Has(template, "name"), "Job Template missing 'name' field")
        f2 == ThenAddOrError(f1, Has(template, "project"), "referenced_projects",
                             template.v["project"],
                             "Job Template '" \o Str(NameOf(template)) \o "' missing project")
        f3 == ThenAddOrError(f2, Has(template, "inventory"), "referenced_inventories",
                             template.v["inventory"],
                             "Job Template '" \o Str(NameOf(template)) \o "' missing inventory")
        f4 == ThenErrorIf(f3, ~Has(template, "playbook"),
                          "Job Template '" \o Str(NameOf(template)) \o "' missing playbook")
        f5 == template_credentials(f4, template)
        f6 == ThenAddIf(f5, Has(template, "execution_environment"), "referenced_ees",
                        template.v["execution_environment"])
        f7 == ThenWarnIf(f6, self.environment = "prod"
                             /\ Truthy(Get(template, "ask_variables_on_launch", PyBool(FALSE))),
                         "Job Template '" \o Str(NameOf(template))
                             \o "' allows variable prompts in production - consider pre-defining variables")
        f8 == ThenWarnIf(f7, self.environment = "prod"
                             /\ ~Truthy(Get(template, "use_fact_cache", PyBool(FALSE))),
                         "Job Template '" \o Str(NameOf(template))
                             \o "' not using fact cache - consider enabling for performance")
    IN  f8

\* validate_workflow_templates, the body of "for workflow in workflows"
workflow_record(self, workflow) ==
    LET f0 == IF workflow.t # "dict" THEN Raise(self, "AttributeError") ELSE Ok(self)
        f1 == ThenErrorIf(f0, ~Has(workflow, "name"), "Workflow Template missing 'name' field")
        f2 == ThenWarnIf(f1, ~Has(workflow, "simplified_workflow_nodes")
                             /\ ~Has(workflow, "workflow_nodes"),
                         "Workflow Template '" \o Str(NameOf(workflow))
                             \o "' has no workflow nodes defined")
    IN  f2

\* validate_schedules, the body of "for schedule in schedules"
schedule_record(self, schedule) ==
    LET f0 == IF schedule.t # "dict" THEN Raise(self, "AttributeError") ELSE Ok(self)
        f1 == ThenErrorIf(f0, ~Has(schedule, "name"), "Schedule missing 'name' field")
        f2 == ThenErrorIf(f1, ~Has(schedule, "rrule"),
                          "Schedule '" \o Str(NameOf(schedule)) \o "' missing rrule")
        f3 == ThenErrorIf(f2, ~Has(schedule, "unified_job_template"),
                          "Schedule '" \o Str(NameOf(schedule)) \o "' missing unified_job_template")
        f4 == IF f3.exc # "None" THEN f3
              ELSE Ok(InfoIf(f3.self, Truthy(Get(schedule, "enabled", PyBool(TRUE)))
                                      /\ self.environment = "prod",
                             "Schedule '" \o Str(NameOf(schedule)) \o "' is enabled in production"))
    IN  f4

\* ------------------------------------------------------ entity validators

\* The nine expected files of validate_environment's config_files, in the
\* order the dict lists them, and the key each file's validator reads
config_files == << "organizations.yml", "teams.yml", "credentials.yml",
                   "execution_environments.yml", "projects.yml", "inventories.yml",
                   "job_templates.yml", "workflow_templates.yml", "schedules.yml" >>
config_keys == << "controller_organizations", "controller_teams", "controller_credentials",
                  "controller_execution_environments", "controller_projects",
                  "controller_inventories", "controller_templates",
                  "controller_workflows", "controller_schedules" >>
Kinds == DOMAIN config_files

\* The loop body of the k-th validator
record_body(k, self, rec) ==
    CASE k = 1 -> organization_record(self, rec)
      [] k = 2 -> team_record(self, rec)
      [] k = 3 -> credential_record(self, rec)
      [] k = 4 -> execution_environment_record(self, rec)
      [] k = 5 -> project_record(self, rec)
      [] k = 6 -> inventory_record(self, rec)
      [] k = 7 -> job_template_record(self, rec)
      [] k = 8 -> workflow_record(self, rec)
      [] k = 9 -> schedule_record(self, rec)

\* "for rec in items: <body>" of the k-th validator from the i-th item,
\* stopping at the first exception
RECURSIVE for_records(_, _, _, _)
for_records(k, fr, items, i) ==
    IF fr.exc # "None" \/ i > Len(items) THEN fr
    ELSE for_records(k, record_body(k, fr.self, items[i]), items, i + 1)

\* The closing "Found N ..." message of the k-th validator
found_message(k, n) ==
    "Found " \o ToString(n) \o
    ( CASE k = 1 -> " organization(s)"
        [] k = 2 -> " team(s)"
        [] k = 3 -> " credential(s)"
        [] k = 4 -> " execution environment(s)"
        [] k = 5 -> " project(s)"
        [] k = 6 -> " inventor(y|ies)"
        [] k = 7 -> " job template(s)"
        [] k = 8 -> " workflow template(s)"
        [] k = 9 -> " schedule(s)" )

\* The warning of validate_organizations / validate_teams for a falsy list
none_defined_message(k) ==
    IF k = 1 THEN "No organizations defined"
    ELSE "No teams defined - consider RBAC best practices"

\* validate_organizations .. validate_schedules: the k-th validator called
\* on a decoded document.  config.get raises AttributeError when the
\* document is no mapping; only the first two validators test "if not recs";
\* iterating None or a number raises TypeError
validate_kind(k, self, config) ==
    IF config.t # "dict" THEN Raise(self, "AttributeError")
    ELSE IF k \in {1, 2} /\ ~Truthy(Get(config, config_keys[k], PyList(<<>>)))
    THEN Ok(AddWarning(self, none_defined_message(k)))
    ELSE IF ~Iterable(Get(config, config_keys[k], PyList(<<>>))) THEN Raise(self, "TypeError")
    ELSE ThenInfo(for_records(k, Ok(self), Items(Get(config, config_keys[k], PyList(<<>>))), 1),
                  found_message(k, PyLen(Get(config, config_keys[k], PyList(<<>>)))))

validate_organizations(self, config) == validate_kind(1, self, config)
validate_teams(self, config) == validate_kind(2, self, config)
validate_credentials(self, config) == validate_kind(3, self, config)
validate_execution_environments(self, config) == validate_kind(4, self, config)
validate_projects(self, config) == validate_kind(5, self, config)
validate_inventories(self, config) == validate_kind(6, self, config)
validate_job_templates(self, config) == validate_kind(7, self, config)
validate_workflow_templates(self, config) == validate_kind(8, self, config)
validate_schedules(self, config) == validate_kind(9, self, config)

\* ---------------------------------------------------------- reconciliation

\* The orders in which "for x in <set>" may visit a set: a set's iteration
\* order is not fixed by the language
Orders(S) == {q \in [1..Cardinality(S) -> S] : {q[i] : i \in DOMAIN q} = S}

dangling_message(what, x) ==
    "Referenced " \o what \o " '" \o Str(x) \o "' is not defined (may be in different environment)"

\* validate_references with the four sets visited in the orders oc, op, oi, oe
validate_references(self, oc, op, oi, oe) ==
    [self EXCEPT !.warnings =
        @ \o [i \in DOMAIN oc |-> dangling_message("credential", oc[i])]
          \o [i \in DOMAIN op |-> dangling_message("project", op[i])]
          \o [i \in DOMAIN oi |-> dangling_message("inventory", oi[i])]
          \o [i \in DOMAIN oe |-> dangling_message("execution environment", oe[i])]]

undefined_credentials(self) == self.referenced_credentials \ self.defined_credentials
undefined_projects(self) == self.referenced_projects \ self.defined_projects
undefined_inventories(self) == self.referenced_inventories \ self.defined_inventories
undefined_ees(self) == self.referenced_ees \ self.defined_ees

\* Every object validate_references may leave behind
references_outcomes(self) ==
    { validate_references(self, oc, op, oi, oe) :
        oc \in Orders(undefined_credentials(self)),
        op \in Orders(undefined_projects(self)),
        oi \in Orders(undefined_inventories(self)),
        oe \in Orders(undefined_ees(self)) }

\* ---------------------------------------------------------------- loading

\* get_group_vars_path(environment) and the path of one of its files
BasePath == "/repo"
get_group_vars_path(self, environment) ==
    self.base_path \o "/inventory/group_vars/aap_" \o environment
file_path(self, environment, k) ==
    get_group_vars_path(self, environment) \o "/" \o config_files[k]

\* What a file of the environment's directory can be: absent, not parseable
\* as YAML, or a YAML document (doc, any Python value)
Absent == [state |-> "absent"]
Unparsable == [state |-> "unparsable"]
Doc(x) == [state |-> "doc", doc |-> x]

\* load_yaml_file on an existing file: [self, config]
load_yaml_file(self, path, f) ==
    IF f.state = "unparsable"
    THEN [self |-> AddError(self, "YAML parsing error in " \o path \o ": <problem mark>"),
          config |-> EmptyDict]
    ELSE [self |-> self, config |-> IF Truthy(f.doc) THEN f.doc ELSE EmptyDict]

\* A print_results that also fails a report with warnings
print_results_strict(self) == Len(self.errors) = 0 /\ Len(self.warnings) = 0

\* print_results: its return value
print_results(self) == Len(self.errors) = 0

\* ----------------------------------------------- the bounded input universe

\* At most MaxPresent of the nine files exist in one environment directory,
\* and a document lists at most MaxRecords records
MaxPresent == 2
MaxRecords == 2

S(x) == PyStr(x)

\* Candidate records of each kind: complete ones, ones with required or
\* recommended fields missing, and malformed ones
OrgBasic == PyDict([name |-> S("Default")])
TeamBasic == PyDict([name |-> S("ops"), organization |-> S("Default")])
CredBasic == PyDict([name |-> S("c1"), credential_type |-> S("Machine"),
                     organization |-> S("Default"),
                     inputs |-> PyDict([username |-> S("admin"), password |-> S("hunter2")])])
EEBasic == PyDict([name |-> S("ee1"), image |-> S("quay.io/ee:latest")])
ProjectBasic == PyDict([name |-> S("p1"), scm_type |-> S("git"), scm_url |-> S("https://git/p1"),
                        credential |-> S("c1"), default_environment |-> S("ee1")])
ProjectNameless == PyDict([scm_type |-> S("git"), scm_url |-> S("https://git/p1"),
                           scm_branch |-> S("main")])
InventoryBasic == PyDict([name |-> S("inv1"), organization |-> S("Default")])
TemplateBasic == PyDict([name |-> S("jt1"), project |-> S("p1"), inventory |-> S("inv1"),
                         playbook |-> S("site.yml"),
                         credentials |-> PyList(<<S("c1"), PyDict([name |-> S("c2")])>>),
                         execution_environment |-> S("ee1")])
TemplateUnnamedRef == PyDict([name |-> S("jt2"), project |-> S("unnamed"),
                              inventory |-> S("inv1"), playbook |-> S("site.yml"),
                              use_fact_cache |-> PyBool(TRUE)])
WorkflowBasic == PyDict([name |-> S("wf1")])
ScheduleBasic == PyDict([name |-> S("s1"), rrule |-> S("FREQ=DAILY"),
                         unified_job_template |-> S("jt1")])

BasicRecords(k) ==
    CASE k = 1 -> {OrgBasic}
      [] k = 2 -> {TeamBasic}
      [] k = 3 -> {CredBasic}
      [] k = 4 -> {EEBasic}
      [] k = 5 -> {ProjectBasic, ProjectNameless}
      [] k = 6 -> {InventoryBasic}
      [] k = 7 -> {TemplateBasic, TemplateUnnamedRef}
      [] k = 8 -> {WorkflowBasic}
      [] k = 9 -> {ScheduleBasic}

RichRecords(k) ==
    BasicRecords(k) \cup
    ( CASE k = 1 -> { PyDict([name |-> S("Default"), description |-> S("d")]),
                      PyDict([description |-> S("d")]),
                      S("Default") }
        [] k = 2 -> { PyDict([name |-> S("ops")]),
                      PyDict([organization |-> S("Default"), description |-> S("d")]),
                      EmptyDict }
        [] k = 3 -> { PyDict([name |-> S("c1"), credential_type |-> S("Machine"),
                              organization |-> S("Default")]),
                      PyDict([credential_type |-> S("Vault"),
                              inputs |-> PyDict([token |-> S("{{ lookup('env', 'T') }}")])]),
                      PyDict([name |-> S("c2"), organization |-> S("Default"),
                              inputs |-> PyDict([password |-> S("!vault |"),
                                                 secret |-> S("{{vault_secret}}"),
                                                 private_key |-> PyInt("12345")])]),
                      PyDict([name |-> S("c1"), credential_type |-> S("Machine"),
                              organization |-> S("Default"), inputs |-> PyNone]),
                      PyDict([name |-> S("c1"), credential_type |-> S("Machine"),
                              inputs |-> S("see password store")]),
                      PyDict([name |-> PyList(<<S("c1")>>)]) }
        [] k = 4 -> { PyDict([name |-> S("ee1"), image |-> S("quay.io/ee@sha256:abc")]),
                      PyDict([image |-> S("quay.io/ee:1.0")]),
                      PyDict([name |-> S("ee2")]),
                      PyDict([name |-> S("ee1"), image |-> PyInt("7")]) }
        [] k = 5 -> { PyDict([name |-> S("unnamed"), scm_type |-> S("svn"),
                              scm_branch |-> S("main")]),
                      PyDict([name |-> S("p1"), scm_url |-> S("https://git/p1"),
                              credential |-> PyList(<<S("c1")>>)]) }
        [] k = 6 -> { PyDict([name |-> S("inv1")]),
                      PyDict([organization |-> S("Default")]) }
        [] k = 7 -> { PyDict([name |-> S("jt1")]),
                      PyDict([project |-> S("p1"), playbook |-> S("site.yml"),
                              ask_variables_on_launch |-> PyBool(TRUE)]),
                      PyDict([name |-> S("jt1"), project |-> PyList(<<S("p1")>>),
                              inventory |-> S("inv1")]),
                      PyDict([name |-> S("jt1"), project |-> S("p1"), inventory |-> S("inv1"),
                              playbook |-> S("site.yml"), credentials |-> PyNone]) }
        [] k = 8 -> { PyDict([name |-> S("wf1"), workflow_nodes |-> PyList(<<>>)]),
                      PyDict([simplified_workflow_nodes |-> PyList(<<>>)]) }
        [] k = 9 -> { PyDict([name |-> S("s1"), rrule |-> S("FREQ=DAILY"),
                              enabled |-> PyBool(FALSE)]),
                      PyDict([unified_job_template |-> S("jt1")]) } )

\* Sequences of at most n elements of R
SeqsUpTo(R, n) == UNION {[1..m -> R] : m \in 0..n}

\* The document {key: value}
KeyDoc(k, value) == Doc(PyDict([x \in {config_keys[k]} |-> value]))

\* The files a directory may hold under the k-th name when it holds several:
\* unparsable, empty, or one basic record
BasicFiles(k) ==
    {Unparsable, Doc(PyNone)} \cup {KeyDoc(k, PyList(<<r>>)) : r \in BasicRecords(k)}

\* ... and when it holds only that file: also a document that is no mapping,
\* a key mapped to null, an unrecognized key, and up to MaxRecords records
RichFiles(k) ==
    BasicFiles(k)
    \cup {Doc(PyList(<<S("x")>>)), KeyDoc(k, PyNone), Doc(PyDict([other |-> S("x")]))}
    \cup {KeyDoc(k, PyList(q)) : q \in SeqsUpTo(RichRecords(k), MaxRecords)}

Present(fs) == {j \in DOMAIN fs : fs[j].state # "absent"}

\* What the k-th file may be, given the files seen before it
FileChoices(k, fs) ==
    {Absent} \cup
    ( IF Present(fs) = {} THEN RichFiles(k)
      ELSE IF Cardinality(Present(fs)) < MaxPresent
              /\ \A j \in Present(fs) : fs[j] \in BasicFiles(j)
      THEN BasicFiles(k)
      ELSE {} )

\* ------------------------------------------------------------ the program

VARIABLES
    environments,   \* main: the list of requested environments
    i,              \* main: position of the for loop in environments
    pc,             \* where the process is
    validator,      \* main: the AAPConfigValidator of the current environment
    k,              \* validate_environment: position in config_files
    root,           \* whether the current environment's directory exists
    files,          \* the files of that directory read so far
    passed,         \* main: the last return value of print_results
    all_passed,     \* main
    reported,       \* the reports printed so far: <<environment, passed>>
    exit_code,      \* the process's exit status, -1 while it runs
    traceback       \* the uncaught exception that ended the process

vars == << environments, i, pc, validator, k, root, files, passed, all_passed,
           reported, exit_code, traceback >>

\* No validator bound yet
NoValidator == AAPConfigValidator(BasePath, "")

\* main, lines 505-512: the argument parser allows one environment or all
EnvironmentLists == { <<"dev">>, <<"qa">>, <<"prod">>, <<"dev", "qa", "prod">> }

Init ==
    /\ environments \in EnvironmentLists
    /\ i = 1
    /\ pc = "loop"
    /\ validator = NoValidator
    /\ k = 0
    /\ root = FALSE
    /\ files = <<>>
    /\ passed = TRUE
    /\ all_passed = TRUE
    /\ reported = <<>>
    /\ exit_code = 0 - 1
    /\ traceback = "None"

\* A constructor whose Defined/Referenced sets are shared by all instances
ConstructShared ==
    /\ pc = "loop"
    /\ i <= Len(environments)
    /\ validator' = [validator EXCEPT !.environment = environments[i],
                                      !.errors = <<>>, !.warnings = <<>>, !.info = <<>>]
    /\ k' = 0
    /\ root' = FALSE
    /\ files' = <<>>
    /\ pc' = "validate"
    /\ UNCHANGED << environments, i, passed, all_passed, reported, exit_code, traceback >>

\* main, lines 513-515: bind a new validator and call validate_environment
Construct ==
    /\ pc = "loop"
    /\ i <= Len(environments)
    /\ validator' = AAPConfigValidator(BasePath, environments[i])
    /\ k' = 0
    /\ root' = FALSE
    /\ files' = <<>>
    /\ pc' = "validate"
    /\ UNCHANGED << environments, i, passed, all_passed, reported, exit_code, traceback >>

\* A missing directory that is recorded without returning
EnvironmentMissingNoReturn ==
    /\ pc = "validate"
    /\ root' = FALSE
    /\ validator' = AddError(validator, "Environment path not found: "
                                \o get_group_vars_path(validator, environments[i]))
    /\ k' = 1
    /\ pc' = "file"
    /\ UNCHANGED << environments, i, files, passed, all_passed, reported,
                    exit_code, traceback >>

\* validate_environment, lines 402-406: the directory does not exist
EnvironmentMissing ==
    /\ pc = "validate"
    /\ root' = FALSE
    /\ validator' = AddError(validator, "Environment path not found: "
                                \o get_group_vars_path(validator, environments[i]))
    /\ pc' = "print"
    /\ UNCHANGED << environments, i, k, files, passed, all_passed, reported,
                    exit_code, traceback >>

\* validate_environment, lines 404-419: the directory exists
EnvironmentFound ==
    /\ pc = "validate"
    /\ root' = TRUE
    /\ k' = 1
    /\ pc' = "file"
    /\ UNCHANGED << environments, i, validator, files, passed, all_passed, reported,
                    exit_code, traceback >>

\* A file loop that leaves before its last file
NextFileEarly ==
    /\ k' = k + 1
    /\ pc' = IF k + 1 >= Len(config_files) THEN "references" ELSE "file"

\* After the k-th iteration of "for filename, validator in config_files"
NextFile ==
    /\ k' = k + 1
    /\ pc' = IF k = Len(config_files) THEN "references" ELSE "file"

\* A loop body without the "if config" test
validate_loaded_always(j, ld) == validate_kind(j, ld.self, ld.config)

\* validate_environment, lines 427-428: "if config: validator(config)"
validate_loaded(j, ld) ==
    IF Truthy(ld.config) THEN validate_kind(j, ld.self, ld.config) ELSE Ok(ld.self)

\* validate_environment, lines 422-428, one iteration on the file f: the
\* frame it ends in
file_step(self, environment, j, f) ==
    IF f.state = "absent" THEN Ok(self)
    ELSE validate_loaded(j, load_yaml_file(self, file_path(self, environment, j), f))

\* One iteration that ends normally
ValidateFile ==
    /\ pc = "file"
    /\ \E f \in FileChoices(k, files) :
         LET fr == file_step(validator, environments[i], k, f) IN
         /\ fr.exc = "None"
         /\ files' = Append(files, f)
         /\ validator' = fr.self
    /\ NextFile
    /\ UNCHANGED << environments, i, root, passed, all_passed, reported,
                    exit_code, traceback >>

\* One iteration whose validator raises: nothing catches it, the interpreter
\* prints the traceback and exits with status 1
ValidatorRaises ==
    /\ pc = "file"
    /\ \E f \in FileChoices(k, files) :
         LET fr == file_step(validator, environments[i], k, f) IN
         /\ fr.exc # "None"
         /\ files' = Append(files, f)
         /\ validator' = fr.self
         /\ traceback' = fr.exc
    /\ pc' = "crashed"
    /\ exit_code' = 1
    /\ UNCHANGED << environments, i, k, root, passed, all_passed, reported >>

\* validate_environment, lines 430-434
ValidateReferences ==
    /\ pc = "references"
    /\ validator' \in references_outcomes(validator)
    /\ pc' = "print"
    /\ UNCHANGED << environments, i, k, root, files, passed, all_passed, reported,
                    exit_code, traceback >>

\* main, lines 516-520: print the report, fold its verdict, next environment
PrintResults ==
    /\ pc = "print"
    /\ passed' = print_results(validator)
    /\ all_passed' = (all_passed /\ passed')
    /\ reported' = Append(reported, <<environments[i], passed'>>)
    /\ i' = i + 1
    /\ pc' = "loop"
    /\ UNCHANGED << environments, validator, k, root, files, exit_code, traceback >>

\* main, line 522
Exit ==
    /\ pc = "loop"
    /\ i > Len(environments)
    /\ exit_code' = IF all_passed THEN 0 ELSE 1
    /\ pc' = "exited"
    /\ UNCHANGED << environments, i, validator, k, root, files, passed, all_passed,
                    reported, traceback >>

Next ==
    \/ Construct
    \/ EnvironmentMissing
    \/ EnvironmentFound
    \/ ValidateFile
    \/ ValidatorRaises
    \/ ValidateReferences
    \/ PrintResults
    \/ Exit

Spec == Init /\ [][Next]_vars

\* ------------------------------------------------- vocabulary of the claims

Range(q) == {q[j] : j \in DOMAIN q}
Count(q, m) == Cardinality({j \in DOMAIN q : q[j] = m})
\* What q gained over its earlier value p
Gained(q, p) == SubSeq(q, Len(p) + 1, Len(q))

\* A report has been produced for the validator now bound
ReportPrinted == pc \in {"loop", "exited"} /\ Len(reported) > 0
\* validate_environment has returned (by either return)
RunEnded == pc = "print" \/ ReportPrinted

\* The records a file holds under the k-th key, when it is a mapping with a
\* sequence there
RecordsIn(f, j) ==
    IF f.state = "doc" /\ f.doc.t = "dict" /\ Has(f.doc, config_keys[j])
       /\ f.doc.v[config_keys[j]].t = "list"
    THEN f.doc.v[config_keys[j]].v
    ELSE <<>>
MappingsIn(f, j) == {r \in Range(RecordsIn(f, j)) : r.t = "dict"}

\* ------------------------------------------------------------------- C1
\* C1: whenever print_results has produced a report, it returned false
\* exactly when the error list holds at least one finding; warnings and
\* info alone leave the verdict true.
C1_PassedIffNoErrors ==
    ReportPrinted =>
        /\ (passed = FALSE) <=> (Len(validator.errors) >= 1)
        /\ reported[Len(reported)] = <<validator.environment, passed>>

C1_Witness ==
    /\ ReportPrinted
    /\ Len(validator.errors) = 0
    /\ Len(validator.warnings) >= 2
    /\ Len(validator.info) >= 1
    /\ passed = TRUE

\* ------------------------------------------------------------------- C2
\* C2: once reconciliation has run, a project name P referenced by a job
\* template record has a dangling-project Warning exactly when no project
\* record of the environment carries the name P.
C2_ProjectClosure ==
    (pc = "print" /\ root) =>
        \A t \in MappingsIn(files[7], 7) :
            (Has(t, "project") /\ Hashable(t.v["project"])) =>
                LET P == t.v["project"]
                    defined == \E r \in MappingsIn(files[5], 5) :
                                   Has(r, "name") /\ r.v["name"] = P
                    warned == dangling_message("project", P) \in Range(validator.warnings)
                IN  (~defined => warned) /\ (defined => ~warned)

\* ------------------------------------------------------------------- C3
\* C3: no exception leaves an entity validator, whatever the decoded
\* document: the process never ends in a traceback.
C3_NoValidatorException == traceback = "None" /\ pc # "crashed"

\* ------------------------------------------------------------------- C4
\* C4: when the environment's directory does not exist, the run ends with
\* exactly the one "Environment path not found" Error, nothing else in the
\* report, no file read, every Defined/Referenced set empty, and the
\* verdict false.
C4_MissingRootShortCircuits ==
    (RunEnded /\ ~root) =>
        /\ validator =
             [AAPConfigValidator(BasePath, validator.environment) EXCEPT
                 !.errors = << "Environment path not found: " \o BasePath
                               \o "/inventory/group_vars/aap_" \o validator.environment >>]
        /\ files = <<>>
        /\ ReportPrinted => passed = FALSE

C4_Witness ==
    /\ pc = "exited"
    /\ ~root
    /\ reported = << <<"qa", FALSE>> >>
    /\ exit_code = 1

\* ------------------------------------------------------------------- C5
\* validate_environment's file loop run from the j-th file on the files fs
RECURSIVE RunFiles(_, _, _, _)
RunFiles(fr, environment, fs, j) ==
    IF fr.exc # "None" \/ j > Len(fs) THEN fr
    ELSE RunFiles(file_step(fr.self, environment, j, fs[j]), environment, fs, j + 1)

\* Every object one run of validate_environment on a fresh validator can
\* end with, as a function of the environment's name and directory alone
RunOutcomes(environment, rootExists, fs) ==
    IF ~rootExists
    THEN { AddError(AAPConfigValidator(BasePath, environment),
                    "Environment path not found: " \o BasePath
                        \o "/inventory/group_vars/aap_" \o environment) }
    ELSE references_outcomes(
             RunFiles(Ok(AAPConfigValidator(BasePath, environment)), environment, fs, 1).self)

\* C5: whatever environments were validated earlier in the invocation, the
\* object an environment's run ends with (its three finding lists and its
\* Defined/Referenced sets) is one a run on a fresh validator over that
\* environment's own directory produces; the order of the dangling-reference
\* warnings of one kind is the only freedom.
C5_ReportDependsOnOwnFilesOnly ==
    RunEnded => validator \in RunOutcomes(validator.environment, root, files)

C5_Witness ==
    /\ pc = "print"
    /\ root
    /\ Len(reported) = 2
    /\ reported[1][2] = FALSE
    /\ validator.environment = "prod"
    /\ validator.defined_projects = {}
    /\ dangling_message("project", S("p1")) \in Range(validator.warnings)

\* ------------------------------------------------------------------- C6
\* C6: when the process has ended, every requested environment has been
\* validated and reported, in order, and the exit status is 0 if every
\* report passed and 1 otherwise.
C6_ExitCode ==
    pc \in {"exited", "crashed"} =>
        /\ Len(reported) = Len(environments)
        /\ \A j \in DOMAIN reported : reported[j][1] = environments[j]
        /\ exit_code = IF \A j \in DOMAIN reported : reported[j][2] THEN 0 ELSE 1

\* ------------------------------------------------------------------- C7
\* The fields the claim lists as required for each kind
RequiredFields(j) ==
    CASE j = 1 -> {"name"}
      [] j = 2 -> {"name", "organization"}
      [] j = 3 -> {"name", "credential_type", "organization"}
      [] j = 4 -> {"name", "image"}
      [] j = 5 -> {"name", "scm_type", "scm_url"}
      [] j = 6 -> {"name", "organization"}
      [] j = 7 -> {"name", "project", "inventory", "playbook"}
      [] j = 8 -> {"name"}
      [] j = 9 -> {"name", "rrule", "unified_job_template"}

KindLabel(j) ==
    CASE j = 1 -> "Organization"
      [] j = 2 -> "Team"
      [] j = 3 -> "Credential"
      [] j = 4 -> "Execution Environment"
      [] j = 5 -> "Project"
      [] j = 6 -> "Inventory"
      [] j = 7 -> "Job Template"
      [] j = 8 -> "Workflow Template"
      [] j = 9 -> "Schedule"

\* The Error that names a missing required field of a record
MissingMessage(j, field, rec) ==
    IF field = "name" THEN KindLabel(j) \o " missing 'name' field"
    ELSE KindLabel(j) \o " '" \o Str(NameOf(rec)) \o "' missing " \o field
             \o (IF j = 2 /\ field = "organization" THEN " reference" ELSE "")

\* A step of the file loop in which the file's validator, if called,
\* returned
FileStepReturns == pc = "file" /\ pc' \in {"file", "references"}

\* C7: when a validator has gone through the records of its file, the
\* errors it added hold, for every record and every required field of the
\* kind, one missing-field Error per record that lacks the field, and none
\* for a record that has it.
C7_RequiredFields ==
    [][ FileStepReturns =>
          LET recs == RecordsIn(files'[k], k)
              new == Gained(validator'.errors, validator.errors)
          IN  \A x \in DOMAIN recs : \A field \in RequiredFields(k) :
                  Count(new, MissingMessage(k, field, recs[x]))
                    = Cardinality({ y \in DOMAIN recs :
                          /\ ~Has(recs[y], field)
                          /\ MissingMessage(k, field, recs[y])
                               = MissingMessage(k, field, recs[x]) })
      ]_vars

C7_Witness ==
    /\ pc = "print"
    /\ root
    /\ Len(RecordsIn(files[7], 7)) = 2
    /\ \E x \in {1, 2} : LET r == RecordsIn(files[7], 7)[x] IN
           /\ r.t = "dict"
           /\ Has(r, "name") /\ ~Has(r, "project") /\ ~Has(r, "inventory") /\ ~Has(r, "playbook")
    /\ \E x \in {1, 2} : LET r == RecordsIn(files[7], 7)[x] IN
           /\ r.t = "dict"
           /\ ~Has(r, "name") /\ Has(r, "project") /\ ~Has(r, "inventory") /\ Has(r, "playbook")
    /\ Len(validator.errors) = 5

\* ------------------------------------------------------------------- C8
SensitiveNames == {"password", "secret", "token", "private_key"}

\* The record holds the sensitive field under a mapping "inputs", with a
\* value whose text starts with neither marker
HoldsPlaintext(rec, field) ==
    /\ Has(rec, "inputs")
    /\ rec.v["inputs"].t = "dict"
    /\ Has(rec.v["inputs"], field)
    /\ ~StartsWith(Str(rec.v["inputs"].v[field]), "{{ ")
    /\ ~StartsWith(Str(rec.v["inputs"].v[field]), "!vault")

\* C8: when validate_credentials has gone through its records, the errors
\* it added hold an "unencrypted <field>" Error for a credential and a
\* sensitive field exactly once per record of that name whose inputs
\* mapping holds the field with a text that starts with neither "{{ " nor
\* "!vault"; a field that is absent, or whose text starts with a marker,
\* adds none.
C8_PlaintextSecrets ==
    [][ (FileStepReturns /\ k = 3) =>
          LET recs == RecordsIn(files'[k], k)
              new == Gained(validator'.errors, validator.errors)
          IN  \A x \in DOMAIN recs : \A field \in SensitiveNames :
                  Count(new, unencrypted_message(NameOf(recs[x]), field))
                    = Cardinality({ y \in DOMAIN recs :
                          /\ HoldsPlaintext(recs[y], field)
                          /\ NameOf(recs[y]) = NameOf(recs[x]) })
      ]_vars

C8_Witness ==
    /\ pc = "print"
    /\ root
    /\ \E r \in MappingsIn(files[3], 3) :
           /\ HoldsPlaintext(r, "secret")
           /\ HoldsPlaintext(r, "private_key")
           /\ Has(r.v["inputs"], "password") /\ ~HoldsPlaintext(r, "password")
           /\ ~Has(r.v["inputs"], "token")
    /\ \E r \in MappingsIn(files[3], 3) :
           Has(r, "inputs") /\ Has(r.v["inputs"], "token") /\ ~HoldsPlaintext(r, "token")
    /\ unencrypted_message(S("c2"), "secret") \in Range(validator.errors)
    /\ unencrypted_message(S("c2"), "password") \notin Range(validator.errors)

\* ------------------------------------------------------------------- C9
\* The loop moves on to the next file, or to reconciliation after the last
LoopContinues == k' = k + 1 /\ pc' = (IF k = Len(config_files) THEN "references" ELSE "file")

Contribution(environment, j, f) ==
    file_step(AAPConfigValidator(BasePath, environment), environment, j, f).self

\* What each of the files fs adds, taken alone
Contributions(environment, fs) ==
    [j \in DOMAIN fs |-> Contribution(environment, j, fs[j])]

\* The findings of one severity in the contributions cs, file after file
RECURSIVE FindingsInOrder(_, _, _)
FindingsInOrder(cs, severity, j) ==
    IF j > Len(cs) THEN <<>>
    ELSE cs[j][severity] \o FindingsInOrder(cs, severity, j + 1)

\* The names the contributions cs put into one Defined or Referenced set
NamesOf(cs, field) == UNION {cs[j][field] : j \in DOMAIN cs}

\* The dangling-reference warnings of the contributions cs
DanglingOf(cs) ==
    {dangling_message("credential", x) :
        x \in NamesOf(cs, "referenced_credentials") \ NamesOf(cs, "defined_credentials")}
    \cup {dangling_message("project", x) :
        x \in NamesOf(cs, "referenced_projects") \ NamesOf(cs, "defined_projects")}
    \cup {dangling_message("inventory", x) :
        x \in NamesOf(cs, "referenced_inventories") \ NamesOf(cs, "defined_inventories")}
    \cup {dangling_message("execution environment", x) :
        x \in NamesOf(cs, "referenced_ees") \ NamesOf(cs, "defined_ees")}

\* The lists hold the validators' findings of the contributions cs, in
\* order, and nothing else
HoldsFindingsOf(cs) ==
    /\ validator.errors = FindingsInOrder(cs, "errors", 1)
    /\ validator.warnings = FindingsInOrder(cs, "warnings", 1)
    /\ validator.info = FindingsInOrder(cs, "info", 1)

\* ... and, after them, each dangling reference of cs exactly once
HoldsReportOf(cs, own, dangling) ==
    /\ validator.errors = FindingsInOrder(cs, "errors", 1)
    /\ validator.info = FindingsInOrder(cs, "info", 1)
    /\ Len(validator.warnings) >= Len(own)
    /\ SubSeq(validator.warnings, 1, Len(own)) = own
    /\ Range(Gained(validator.warnings, own)) = dangling
    /\ Len(Gained(validator.warnings, own)) = Cardinality(dangling)

\* C10: while the file loop runs, the lists hold the validators' findings
\* of the files read so far, in the order of config_files, and no
\* reconciliation finding; once the run has ended with the directory
\* present, all nine files have been read, errors and info are the
\* validators' findings in that order, and the warnings are the validators'
\* warnings in that order followed by each dangling reference of the final
\* Defined/Referenced sets exactly once.
C10_Ordering ==
    /\ (pc \in {"file", "references"} /\ root) =>
          /\ Len(files) = k - 1
          /\ pc = "references" => Len(files) = Len(config_files)
          /\ HoldsFindingsOf(Contributions(validator.environment, files))
    /\ (RunEnded /\ root) =>
          /\ Len(files) = Len(config_files)
          /\ LET cs == Contributions(validator.environment, files)
             IN  HoldsReportOf(cs, FindingsInOrder(cs, "warnings", 1), DanglingOf(cs))

C10_Witness ==
    /\ pc = "print"
    /\ root
    /\ files[5].state = "doc"
    /\ files[7].state = "doc"
    /\ validator.environment = "prod"
    /\ validator.info = <<"Found 1 project(s)", "Found 1 job template(s)">>
    /\ Len(validator.warnings) = 6
    /\ validator.warnings[1] = "Project 'p1' not specifying branch - will use repository default"
    /\ validator.warnings[2]
         = "Job Template 'jt1' not using fact cache - consider enabling for performance"
    /\ validator.warnings[3] = dangling_message("credential", S("c2"))
    /\ validator.warnings[4] = dangling_message("credential", S("c1"))
    /\ validator.warnings[6] = dangling_message("execution environment", S("ee1"))

\* ------------------------------------------------------------------ C11
\* The names the records of the j-th file carry in their name field
CarriedNames(j) ==
    IF j > Len(files) THEN {}
    ELSE {r.v["name"] : r \in {m \in MappingsIn(files[j], j) : Has(m, "name")}}

\* C11: in every state of a run, each of the Defined sets of credentials,
\* execution environments, projects and inventories holds only names that
\* a record of the kind's file read so far carries in its name field; and
\* once reconciliation has run, a job template's reference to the project
\* name "unnamed" is reported as dangling unless a project record carries
\* the name "unnamed".
C11_PlaceholderOnlyInMessages ==
    /\ validator.defined_credentials \subseteq CarriedNames(3)
    /\ validator.defined_ees \subseteq CarriedNames(4)
    /\ validator.defined_projects \subseteq CarriedNames(5)
    /\ validator.defined_inventories \subseteq CarriedNames(6)
    /\ ( /\ pc = "print"
         /\ root
         /\ \E t \in MappingsIn(files[7], 7) :
                Has(t, "project") /\ t.v["project"] = S("unnamed")
         /\ S("unnamed") \notin CarriedNames(5) )
       => dangling_message("project", S("unnamed")) \in Range(validator.warnings)

====
